---- MODULE Spec2Model ----
(***************************************************************************)
(* A model of the invoicer command-line tool: the SQLite store of invoice  *)
(* cycles, calendar events and invoices (database.py), the commands that   *)
(* act on it (main.py) and the invoice compilation (pdf_generator.py).     *)
(*                                                                         *)
(* Representation:                                                         *)
(*  - a calendar date 'YYYY-MM-DD' is its day number (an integer); only    *)
(*    well-formed dates are drawn, for which the text order of the strings *)
(*    is the order of the day numbers;                                     *)
(*  - an ISO timestamp 'YYYY-MM-DDTHH:MM:SS+HH:MM' is the record           *)
(*    [day, tod, off]: the date and the minute of the day as written, and  *)
(*    the UTC offset in minutes as written;                                *)
(*  - hours are integers counted in hundredths of an hour (durations are   *)
(*    rounded to 2 decimals at ingestion), a rate is an integer, and an    *)
(*    amount is counted in hundredths;                                     *)
(*  - invoice numbers and selection strings are sequences of characters.   *)
(* Columns no command reads back to decide anything (names, titles,        *)
(* client fields, created_at, the user profile) are left out.              *)
(***************************************************************************)
EXTENDS Integers, Sequences, FiniteSets, TLC

\* SQL NULL / Python None, for the nullable integer columns and options.
NULL == -1

------------------------------------------------------------------------------
(* Bounds of the model *)

\* invoice cycles the user creates
MaxCycles == 2
\* rows ever inserted into calendar_events (the AUTOINCREMENT counter)
MaxRowId == 4
\* runs of generate that reach get_next_invoice_number
MaxGenerates == 3
\* characters of a selection string, tokens of a well-formed selection and
\* candidates offered, when parse_selection is exercised on its own
MaxSelLen == 4
MaxN == 2
MaxTokens == 2

------------------------------------------------------------------------------
(* Small helpers *)

Max(S) == CHOOSE x \in S : \A y \in S : y <= x

Range(s) == {s[i] : i \in 1..Len(s)}

RECURSIVE SumSeq(_)
SumSeq(s) == IF Len(s) = 0 THEN 0 ELSE Head(s) + SumSeq(Tail(s))

\* all orderings of the finite set S as sequences without repetition
RECURSIVE Perms(_)
Perms(S) ==
    IF S = {} THEN {<<>>}
    ELSE UNION {{<<x>> \o p : p \in Perms(S \ {x})} : x \in S}

------------------------------------------------------------------------------
(* Characters, decimal formatting and parsing *)

DigitChars == <<"0", "1", "2", "3", "4", "5", "6", "7", "8", "9">>

IsDigit(c) == c \in Range(DigitChars)

DigitVal(c) == (CHOOSE i \in 1..10 : DigitChars[i] = c) - 1

\* str(n) for n >= 0
RECURSIVE Decimal(_)
Decimal(n) ==
    IF n < 10 THEN <<DigitChars[n + 1]>>
    ELSE Decimal(n \div 10) \o <<DigitChars[(n % 10) + 1]>>

\* the format specification 03d: at least 3 digits, padded on the left with 0
format_03d_short(n) == Decimal(n)
format_03d(n) ==
    LET s == Decimal(n)
    IN  IF Len(s) >= 3 THEN s ELSE [i \in 1..(3 - Len(s)) |-> "0"] \o s

\* SQL SUBSTR(s, k): the characters of s from the k-th on
SUBSTR(s, k) == SubSeq(s, k, Len(s))

\* SQL CAST(s AS INTEGER) of a text: the value of its longest prefix of
\* digits, 0 when it has none
RECURSIVE CastPrefix(_, _)
CastPrefix(s, acc) ==
    IF Len(s) = 0 \/ ~IsDigit(Head(s)) THEN acc
    ELSE CastPrefix(Tail(s), 10 * acc + DigitVal(Head(s)))

CAST_INTEGER(s) == CastPrefix(s, 0)

\* SQL s LIKE '#%'
LIKE_hash(s) == Len(s) >= 1 /\ s[1] = "#"

------------------------------------------------------------------------------
(* Timestamps *)

\* SQLite DATE(ts) of an ISO timestamp with a UTC offset: the offset is
\* subtracted and the date of the resulting UTC time is returned
DATE_local(ts) == ts.day
DATE(ts) == ts.day + ((ts.tod - ts.off) \div 1440)

\* rank of the offset's text '+HH:MM' / '-HH:MM' in the binary collation:
\* '+' (0x2B) sorts before '-' (0x2D); among '+' texts the larger offset is
\* the larger text, among '-' texts the larger magnitude is the larger text
OffsetTextRank(off) == IF off >= 0 THEN off ELSE 100000 - off

\* s < t for the stored texts (the BINARY collation of ORDER BY start_time)
TextLess(s, t) ==
    \/ s.day < t.day
    \/ s.day = t.day /\ s.tod < t.tod
    \/ s.day = t.day /\ s.tod = t.tod /\ OffsetTextRank(s.off) < OffsetTextRank(t.off)

\* the instant a timestamp denotes, in minutes
Instant(ts) == ts.day * 1440 + ts.tod - ts.off

\* round(hours, 2) of a duration given in minutes, in hundredths of an
\* hour (minutes * 100 / 60 is never half-way between two integers)
round2_hours_trunc(minutes) == (minutes * 100) \div 60
round2_hours(minutes) == (minutes * 100 + 30) \div 60

------------------------------------------------------------------------------
(* The calendar provider: what events().list can return *)

TS(d, t, o) == [day |-> d, tod |-> t, off |-> o]

\* the primary calendar (times in +05:30): evA 02:00-04:30, evB 10:00-11:15;
\* a second calendar (times in UTC): evC 09:30-10:30, and evD, which ends at
\* the instant it starts, 12:00 (the provider accepts an end equal to the
\* start); all on day 2
PrimaryItems ==
    { [id |-> "evA", start |-> TS(2, 120, 330), end |-> TS(2, 270, 330)],
      [id |-> "evB", start |-> TS(2, 600, 330), end |-> TS(2, 675, 330)] }

OtherItems ==
    { [id |-> "evC", start |-> TS(2, 570, 0), end |-> TS(2, 630, 0)],
      [id |-> "evD", start |-> TS(2, 720, 0), end |-> TS(2, 720, 0)] }

\* the items of a response: those of the calendar asked, or none when the
\* window --start..--end holds no event
Responses == {PrimaryItems, OtherItems, {}}

\* CalendarClient.fetch_events: the items of the response, in the
\* provider's order (orderBy=startTime), each with its rounded duration
processed_event(item) ==
    [id |-> item.id, start |-> item.start, end |-> item.end,
     duration_hours |-> round2_hours(Instant(item.end) - Instant(item.start))]

fetch_events(items) ==
    {p \in Perms({processed_event(i) : i \in items}) :
        \A i, j \in 1..Len(p) : i < j => Instant(p[i].start) <= Instant(p[j].start)}

------------------------------------------------------------------------------
(* The store and the command line's visible outcome *)

VARIABLES
    cycles,      \* table invoice_cycles: rows [id, start_date, end_date, hourly_rate]
    events,      \* table calendar_events: rows [id, event_id, start_time, end_time,
                 \*                              duration_hours, cycle_id]
    event_seq,   \* AUTOINCREMENT counter of calendar_events
    invoices,    \* table invoices: rows [cycle_id, invoice_number, invoice_date,
                 \*                       due_date, total_hours, hourly_rate,
                 \*                       total_amount, pdf_path]
    files,       \* the PDF files present in INVOICES_DIR: [path, content], one
                 \* per path
    issued,      \* history: the invoice numbers get_next_invoice_number returned
                 \* to generate, oldest first
    last,        \* the last command run and how it ended
    replaced,    \* history: the rows the INSERT OR REPLACE statements of the
                 \* most recent fetch deleted
    probe,       \* a direct call of parse_selection: its arguments and result
    compiling    \* for each of two runs of generate that overlap in time: where
                 \* the run is in generate_invoice_pdf and the invoice it computed

vars == <<cycles, events, event_seq, invoices, files, issued, last, replaced, probe,
         compiling>>

db == <<cycles, events, event_seq, invoices, files>>

NoProbe ==
    [tokens |-> <<>>, selection |-> <<>>, max_num |-> 0, state |-> "none", result |-> <<>>]

Outcome(cmd, status) == [cmd |-> cmd, status |-> status]

\* the overlapping runs of generate, and a run that is not under way
Runs == {1, 2}

NotCompiling == [pc |-> "idle", row |-> <<>>]

Init ==
    /\ cycles = {}
    /\ events = {}
    /\ event_seq = 0
    /\ invoices = {}
    /\ files = {}
    /\ issued = <<>>
    /\ last = Outcome("init", "ok")
    /\ replaced = {}
    /\ probe = NoProbe
    /\ compiling = [r \in Runs |-> NotCompiling]

------------------------------------------------------------------------------
(* database.py: InvoiceCycle *)

\* InvoiceCycle.create: INSERT with the next AUTOINCREMENT id (no cycle is
\* ever deleted, so the counter is the largest id)
InvoiceCycle_create(rows, start_date, end_date, hourly_rate) ==
    rows \cup { [id |-> Cardinality(rows) + 1, start_date |-> start_date,
                 end_date |-> end_date, hourly_rate |-> hourly_rate] }

\* InvoiceCycle.get: the rows fetchone() chooses from (none: None)
InvoiceCycle_get(cycle_id) == {c \in cycles : c.id = cycle_id}

\* InvoiceCycle.update_rate
InvoiceCycle_update_rate_all(cycle_id, hourly_rate) ==
    {[c EXCEPT !.hourly_rate = hourly_rate] : c \in cycles}
InvoiceCycle_update_rate(cycle_id, hourly_rate) ==
    {IF c.id = cycle_id THEN [c EXCEPT !.hourly_rate = hourly_rate] ELSE c : c \in cycles}

------------------------------------------------------------------------------
(* database.py: CalendarEvent *)

\* one INSERT OR REPLACE: a stored row with the same event_id (UNIQUE) is
\* deleted, and the new row takes the next AUTOINCREMENT id
insert_keeping_cycle(st, event, cycle_id) ==
    LET old == {r \in st.rows : r.event_id = event.id}
    IN  [rows |-> (st.rows \ old) \cup
                  { [id |-> st.seq + 1, event_id |-> event.id,
                     start_time |-> event.start, end_time |-> event.end,
                     duration_hours |-> event.duration_hours,
                     cycle_id |-> IF old = {} THEN cycle_id
                                  ELSE (CHOOSE r \in old : TRUE).cycle_id] },
         seq |-> st.seq + 1,
         removed |-> st.removed \cup old]
insert_or_replace(st, event, cycle_id) ==
    [rows |-> {r \in st.rows : r.event_id # event.id} \cup
              { [id |-> st.seq + 1, event_id |-> event.id,
                 start_time |-> event.start, end_time |-> event.end,
                 duration_hours |-> event.duration_hours, cycle_id |-> cycle_id] },
     seq |-> st.seq + 1,
     removed |-> st.removed \cup {r \in st.rows : r.event_id = event.id}]

\* CalendarEvent.bulk_insert: the events of the list, in order
RECURSIVE bulk_insert(_, _, _)
bulk_insert(st, event_list, cycle_id) ==
    IF Len(event_list) = 0 THEN st
    ELSE bulk_insert(insert_or_replace(st, Head(event_list), cycle_id),
                     Tail(event_list), cycle_id)

\* ORDER BY start_time: the orders the query may return the rows in (rows
\* with equal start_time texts come in either order)
order_by_start_time(rows) ==
    {p \in Perms(rows) :
        \A i, j \in 1..Len(p) : i < j => ~TextLess(p[j].start_time, p[i].start_time)}

\* CalendarEvent.get_unassigned: the WHERE clause, then the ORDER BY
unassigned_rows(start_date, end_date) ==
    {e \in events : /\ e.cycle_id = NULL
                    /\ DATE(e.start_time) >= start_date
                    /\ DATE(e.end_time) <= end_date}

get_unassigned(start_date, end_date) ==
    order_by_start_time(unassigned_rows(start_date, end_date))

\* CalendarEvent.assign_to_cycle: UPDATE ... SET cycle_id = ? WHERE id IN (...)
assign_to_cycle_all(rows, event_ids, cycle_id) ==
    {[e EXCEPT !.cycle_id = cycle_id] : e \in rows}
assign_to_cycle(rows, event_ids, cycle_id) ==
    {IF e.id \in event_ids THEN [e EXCEPT !.cycle_id = cycle_id] ELSE e : e \in rows}

\* CalendarEvent.get_by_cycle
get_by_cycle(cycle_id) ==
    order_by_start_time({e \in events : e.cycle_id = cycle_id})

------------------------------------------------------------------------------
(* database.py: Invoice *)

\* Invoice.get_next_invoice_number
max_num_count(rows) ==
    LET hashed == {i \in rows : LIKE_hash(i.invoice_number)}
    IN  IF hashed = {} THEN NULL ELSE Cardinality(hashed)
max_num(rows) ==
    LET nums == {CAST_INTEGER(SUBSTR(i.invoice_number, 2)) :
                    i \in {r \in rows : LIKE_hash(r.invoice_number)}}
    IN  IF nums = {} THEN NULL ELSE Max(nums)

get_next_invoice_number(rows) ==
    LET m == IF max_num(rows) # NULL /\ max_num(rows) # 0 THEN max_num(rows) ELSE 0
    IN  <<"#">> \o format_03d(m + 1)

\* Invoice.get_by_number: the JOIN with invoice_cycles, then fetchone()
Invoice_get_by_number(invoice_number) ==
    {i \in invoices : /\ i.invoice_number = invoice_number
                      /\ \E c \in cycles : c.id = i.cycle_id}

\* Invoice.create: the INSERT fails on a stored invoice_number (UNIQUE)
Invoice_create_never_fails(row) == FALSE
Invoice_create_fails(row) ==
    \E i \in invoices : i.invoice_number = row.invoice_number

------------------------------------------------------------------------------
(* main.py: parse_selection *)

\* str.split(sep): the parts between the separators (always at least one)
RECURSIVE SplitFrom(_, _, _)
SplitFrom(s, sep, cur) ==
    IF Len(s) = 0 THEN <<cur>>
    ELSE IF Head(s) = sep THEN <<cur>> \o SplitFrom(Tail(s), sep, <<>>)
    ELSE SplitFrom(Tail(s), sep, Append(cur, Head(s)))

split(s, sep) == SplitFrom(s, sep, <<>>)

\* str.strip(): without leading and trailing blanks
RECURSIVE lstrip(_)
lstrip(s) == IF Len(s) > 0 /\ Head(s) = " " THEN lstrip(Tail(s)) ELSE s

RECURSIVE rstrip(_)
rstrip(s) ==
    IF Len(s) > 0 /\ s[Len(s)] = " " THEN rstrip(SubSeq(s, 1, Len(s) - 1)) ELSE s

strip(s) == rstrip(lstrip(s))

\* int(s) for a text of digits, letters, blanks, '-' and ',': blanks around
\* the digits are skipped; anything but a non-empty run of digits raises
\* ValueError, here NULL
int(s) ==
    LET t == strip(s)
    IN  IF Len(t) > 0 /\ \A i \in 1..Len(t) : IsDigit(t[i]) THEN CAST_INTEGER(t) ELSE NULL

Min(a, b) == IF a <= b THEN a ELSE b

\* sorted(list(S))
RECURSIVE sorted(_)
sorted(S) ==
    IF S = {} THEN <<>>
    ELSE LET m == CHOOSE x \in S : \A y \in S : x <= y
         IN  <<m>> \o sorted(S \ {m})

ValueError == [error |-> TRUE, indices |-> <<>>]

\* the indices one part adds: range(start, min(end + 1, max_num + 1)) for
\* 'start-end', the number itself when it lies in 1..max_num; a part that
\* does not parse raises
range_indices_unclamped(start, end, max_n) == start .. end
range_indices(start, end, max_n) == start .. (Min(end + 1, max_n + 1) - 1)

Raised == [error |-> TRUE, set |-> {}]
Added(S) == [error |-> FALSE, set |-> S]

part_indices_lenient(part, max_n) ==
    IF "-" \in Range(part)
    THEN LET pieces == split(part, "-")
         IN  IF Len(pieces) # 2 THEN Added({})
             ELSE IF int(pieces[1]) = NULL \/ int(pieces[2]) = NULL THEN Added({})
             ELSE Added(range_indices(int(pieces[1]), int(pieces[2]), max_n))
    ELSE IF int(part) = NULL THEN Added({})
    ELSE IF 1 <= int(part) /\ int(part) <= max_n THEN Added({int(part)})
    ELSE Added({})
part_indices(part, max_n) ==
    IF "-" \in Range(part)
    THEN LET pieces == split(part, "-")
         IN  IF Len(pieces) # 2 THEN Raised
             ELSE IF int(pieces[1]) = NULL \/ int(pieces[2]) = NULL THEN Raised
             ELSE Added(range_indices(int(pieces[1]), int(pieces[2]), max_n))
    ELSE IF int(part) = NULL THEN Raised
    ELSE IF 1 <= int(part) /\ int(part) <= max_n THEN Added({int(part)})
    ELSE Added({})

parse_selection(selection, max_n) ==
    LET parts == split(selection, ",")
        added == [k \in 1..Len(parts) |-> part_indices(strip(parts[k]), max_n)]
    IN  IF \E k \in 1..Len(parts) : added[k].error
        THEN ValueError
        ELSE [error |-> FALSE,
              indices |-> sorted(UNION {added[k].set : k \in 1..Len(parts)})]

------------------------------------------------------------------------------
(* What the user types *)

CycleIds == 1..MaxCycles

\* --start, --end and --rate of cycle create (nothing checks start <= end)
CycleInputs == {<<1, 2, NULL>>, <<2, 2, 1000>>, <<2, 1, NULL>>}

\* --rate of generate; the answer to the rate prompt
RateOptions == {NULL, 1500}
RateAnswers == {1000}

\* --invoice-date of generate
InvoiceDateOptions == {NULL, 1}

\* selections typed at the prompt of cycle assign (click.prompt asks again
\* on an empty line, so no empty text arrives)
PromptInputs ==
    { <<"a", "l", "l">>, <<"A", "L", "L">>,
      <<"1">>, <<"2">>, <<"3">>, <<"9">>,
      <<"1", ",", "2">>, <<"1", ",", " ", "3">>, <<"2", ",", "2">>,
      <<"1", "-", "2">>, <<"2", "-", "9">>, <<"0", "-", "1">>, <<"3", "-", "1">>,
      <<"x">>, <<" ">>, <<"1", ",">>, <<"1", ",", "x">>, <<"1", "-", "2", "-", "3">>,
      <<"-", "2">> }

\* str.lower() on the letters typed here
lower(s) ==
    [i \in 1..Len(s) |-> CASE s[i] = "A" -> "a" [] s[i] = "L" -> "l" [] OTHER -> s[i]]

\* events[k] of Python, k counted from 0, a negative k from the end
PyIndex(s, k) == IF k >= 0 THEN s[k + 1] ELSE s[Len(s) + k + 1]

\* the invoice number typed at invoices delete
InvoiceNumberInputs ==
    {<<"#", "0", "0">> \o Decimal(n) : n \in 1..(MaxGenerates + 1)} \cup {<<"#", "1">>}

------------------------------------------------------------------------------
(* main.py: cycle create *)

create_cycle(start, end, rate) ==
    /\ Cardinality(cycles) < MaxCycles
    /\ cycles' = InvoiceCycle_create(cycles, start, end, rate)
    /\ last' = Outcome("cycle create", "ok")
    /\ UNCHANGED <<events, event_seq, invoices, files, issued, replaced, probe, compiling>>

------------------------------------------------------------------------------
(* main.py: fetch *)

\* the calendar answered with these items
fetch(items) ==
    /\ event_seq + Cardinality(items) <= MaxRowId
    /\ \E fetched \in fetch_events(items) :
          IF Len(fetched) = 0
          THEN /\ last' = Outcome("fetch", "no events")
               /\ UNCHANGED <<events, event_seq, replaced>>
          ELSE LET st == bulk_insert([rows |-> events, seq |-> event_seq, removed |-> {}],
                                     fetched, NULL)
               IN  /\ events' = st.rows
                   /\ event_seq' = st.seq
                   /\ replaced' = st.removed
                   /\ last' = Outcome("fetch", "ok")
    /\ UNCHANGED <<cycles, invoices, files, issued, probe, compiling>>

\* not authenticated, or the client raised: exit status 1
fetch_fails ==
    /\ last' = Outcome("fetch", "exit 1")
    /\ UNCHANGED <<db, issued, replaced, probe, compiling>>

------------------------------------------------------------------------------
(* main.py: cycle assign *)

is_all(selection) == lower(selection) = <<"a", "l", "l">>

\* selected_ids for a selection that parsed
selected_ids(candidates, indices) ==
    {PyIndex(candidates, indices[k] - 1).id : k \in 1..Len(indices)}

assign_events(cycle_id, selection) ==
    /\ UNCHANGED <<cycles, event_seq, invoices, files, issued, replaced, probe, compiling>>
    /\ IF InvoiceCycle_get(cycle_id) = {}
       THEN /\ last' = Outcome("cycle assign", "exit 1")
            /\ UNCHANGED events
       ELSE \E cycle \in InvoiceCycle_get(cycle_id) :
            \E candidates \in get_unassigned(cycle.start_date, cycle.end_date) :
               IF Len(candidates) = 0
               THEN /\ last' = Outcome("cycle assign", "no unassigned events")
                    /\ UNCHANGED events
               ELSE IF is_all(selection)
               THEN /\ events' = assign_to_cycle(events, {e.id : e \in Range(candidates)},
                                                 cycle_id)
                    /\ last' = Outcome("cycle assign", "assigned")
               ELSE LET parsed == parse_selection(selection, Len(candidates))
                    IN  IF parsed.error
                        THEN /\ last' = Outcome("cycle assign", "ValueError")
                             /\ UNCHANGED events
                        ELSE IF selected_ids(candidates, parsed.indices) # {}
                        THEN /\ events' = assign_to_cycle(
                                             events,
                                             selected_ids(candidates, parsed.indices),
                                             cycle_id)
                             /\ last' = Outcome("cycle assign", "assigned")
                        ELSE /\ last' = Outcome("cycle assign", "no events selected")
                             /\ UNCHANGED events

------------------------------------------------------------------------------
(* main.py: generate, and pdf_generator.py: generate_invoice_pdf *)

\* datetime.now() in pdf_generator.py, and the default of --due-days
Today == 2
DefaultDueDays == 30

\* Python truth of an optional number: None and 0 are false
Truthy(x) == x # NULL /\ x # 0

\* hourly_rate = rate or cycle['hourly_rate']
rate_or_cycle(rate, cycle) == IF Truthy(rate) THEN rate ELSE cycle.hourly_rate

\* if not events
no_events_never(event_list) == FALSE
no_events(event_list) == Len(event_list) = 0

\* total_hours = sum(e['duration_hours'] for e in events)
total_hours_first(event_list) == event_list[1].duration_hours
total_hours_of(event_list) ==
    SumSeq([k \in 1..Len(event_list) |-> event_list[k].duration_hours])

\* total_amount = total_hours * hourly_rate
total_amount_of(total_hours, hourly_rate) == total_hours * hourly_rate

\* invoice_number.replace('#', '')
RECURSIVE remove_hash(_)
remove_hash(s) ==
    IF Len(s) = 0 THEN <<>>
    ELSE IF Head(s) = "#" THEN remove_hash(Tail(s))
    ELSE <<Head(s)>> \o remove_hash(Tail(s))

\* INVOICES_DIR / f"invoice-{number without #}-{invoice_date}.pdf"
pdf_path_of(invoice_number, invoice_date) ==
    [number |-> remove_hash(invoice_number), date |-> invoice_date]

\* the record generate_invoice_pdf computes and hands to Invoice.create
compiled_invoice(cycle, event_list, hourly_rate_used, invoice_date, due_days) ==
    LET invoice_number == get_next_invoice_number(invoices)
        date == IF invoice_date # NULL THEN invoice_date ELSE Today
        total_hours == total_hours_of(event_list)
    IN  [cycle_id |-> cycle.id,
         invoice_number |-> invoice_number,
         invoice_date |-> date,
         due_date |-> date + due_days,
         total_hours |-> total_hours,
         hourly_rate |-> hourly_rate_used,
         total_amount |-> total_amount_of(total_hours, hourly_rate_used),
         pdf_path |-> pdf_path_of(invoice_number, date)]

\* doc.build(story): the PDF written at pdf_path, with what it shows of the
\* invoice
rendered_pdf_blank(row) ==
    [path |-> row.pdf_path,
     content |-> [invoice_number |-> <<>>, invoice_date |-> NULL, due_date |-> NULL,
                  total_hours |-> 0, total_amount |-> 0]]
rendered_pdf(row) ==
    [path |-> row.pdf_path,
     content |-> [invoice_number |-> row.invoice_number,
                  invoice_date |-> row.invoice_date,
                  due_date |-> row.due_date,
                  total_hours |-> row.total_hours,
                  total_amount |-> row.total_amount]]

\* writing a file replaces the file at the same path
write_file(fs, file) == {f \in fs : f.path # file.path} \cup {file}

generate(cycle_id, rate, answer, invoice_date, due_days) ==
    /\ UNCHANGED <<events, event_seq, replaced, probe, compiling>>
    /\ IF InvoiceCycle_get(cycle_id) = {}
       THEN /\ last' = Outcome("generate", "exit 1: cycle not found")
            /\ UNCHANGED <<cycles, invoices, files, issued>>
       ELSE \E cycle \in InvoiceCycle_get(cycle_id) :
            \E event_list \in get_by_cycle(cycle_id) :
               LET prompted == ~Truthy(rate_or_cycle(rate, cycle))
                   hourly_rate_used == IF prompted THEN answer
                                       ELSE rate_or_cycle(rate, cycle)
               IN  /\ cycles' = IF prompted
                                THEN InvoiceCycle_update_rate(cycle_id, answer)
                                ELSE cycles
                   /\ IF no_events(event_list)
                      THEN /\ last' = Outcome("generate", "exit 1: no events")
                           /\ UNCHANGED <<invoices, files, issued>>
                      ELSE LET row == compiled_invoice(cycle, event_list, hourly_rate_used,
                                                       invoice_date, due_days)
                           IN  /\ Len(issued) < MaxGenerates
                               /\ issued' = Append(issued, row.invoice_number)
                               /\ files' = write_file(files, rendered_pdf(row))
                               /\ IF Invoice_create_fails(row)
                                  THEN /\ last' = Outcome("generate", "exit 1: failed")
                                       /\ UNCHANGED invoices
                                  ELSE /\ invoices' = invoices \cup {row}
                                       /\ last' = Outcome("generate", "ok")

------------------------------------------------------------------------------
(* main.py: generate, when doc.build raises *)

\* the invoices after generate_invoice_pdf raised in doc.build: the
\* exception leaves the function before Invoice.create
render_failed_invoices_stored(row) == invoices \cup {row}
render_failed_invoices(row) == invoices

\* the run of generate that reaches doc.build (the cycle exists and has
\* events), in which doc.build raises: main.py reports the failure and exits
\* with status 1; whether a file was left at pdf_path depends on where the
\* build failed
generate_fails(cycle_id, rate, answer, invoice_date, due_days) ==
    /\ UNCHANGED <<events, event_seq, replaced, probe, compiling>>
    /\ \E cycle \in InvoiceCycle_get(cycle_id) :
       \E event_list \in get_by_cycle(cycle_id) :
          LET prompted == ~Truthy(rate_or_cycle(rate, cycle))
              hourly_rate_used == IF prompted THEN answer
                                  ELSE rate_or_cycle(rate, cycle)
              row == compiled_invoice(cycle, event_list, hourly_rate_used,
                                      invoice_date, due_days)
          IN  /\ ~no_events(event_list)
              /\ Len(issued) < MaxGenerates
              /\ cycles' = IF prompted
                           THEN InvoiceCycle_update_rate(cycle_id, answer)
                           ELSE cycles
              /\ issued' = Append(issued, row.invoice_number)
              /\ \E left \in BOOLEAN :
                    files' = IF left THEN write_file(files, rendered_pdf(row)) ELSE files
              /\ invoices' = render_failed_invoices(row)
              /\ last' = Outcome("generate", "exit 1: failed")

------------------------------------------------------------------------------
(* generate run twice at overlapping times: each run in three steps, cut  *)
(* where generate_invoice_pdf leaves the database and comes back to it     *)

\* generate up to and including get_next_invoice_number and the totals
\* (main.py 203-218, pdf_generator.py 59-72)
generate_begin(run, cycle_id, rate, answer, invoice_date, due_days) ==
    /\ compiling[run].pc = "idle"
    /\ UNCHANGED <<events, event_seq, invoices, files, replaced, probe>>
    /\ IF InvoiceCycle_get(cycle_id) = {}
       THEN /\ last' = Outcome("generate", "exit 1: cycle not found")
            /\ UNCHANGED <<cycles, issued, compiling>>
       ELSE \E cycle \in InvoiceCycle_get(cycle_id) :
            \E event_list \in get_by_cycle(cycle_id) :
               LET prompted == ~Truthy(rate_or_cycle(rate, cycle))
                   hourly_rate_used == IF prompted THEN answer
                                       ELSE rate_or_cycle(rate, cycle)
               IN  /\ cycles' = IF prompted
                                THEN InvoiceCycle_update_rate(cycle_id, answer)
                                ELSE cycles
                   /\ IF no_events(event_list)
                      THEN /\ last' = Outcome("generate", "exit 1: no events")
                           /\ UNCHANGED <<issued, compiling>>
                      ELSE LET row == compiled_invoice(cycle, event_list, hourly_rate_used,
                                                       invoice_date, due_days)
                           IN  /\ Len(issued) < MaxGenerates
                               /\ issued' = Append(issued, row.invoice_number)
                               /\ compiling' = [compiling EXCEPT
                                                  ![run] = [pc |-> "allocated", row |-> row]]
                               /\ last' = Outcome("generate", "compiling")

\* doc.build (pdf_generator.py 312)
generate_build(run) ==
    /\ compiling[run].pc = "allocated"
    /\ files' = write_file(files, rendered_pdf(compiling[run].row))
    /\ compiling' = [compiling EXCEPT ![run].pc = "built"]
    /\ UNCHANGED <<cycles, events, event_seq, invoices, issued, last, replaced, probe>>

\* Invoice.create (pdf_generator.py 315-324), and the end of the command
generate_persist(run) ==
    /\ compiling[run].pc = "built"
    /\ IF Invoice_create_fails(compiling[run].row)
       THEN /\ last' = Outcome("generate", "exit 1: failed")
            /\ UNCHANGED invoices
       ELSE /\ invoices' = invoices \cup {compiling[run].row}
            /\ last' = Outcome("generate", "ok")
    /\ compiling' = [compiling EXCEPT ![run] = NotCompiling]
    /\ UNCHANGED <<cycles, events, event_seq, files, issued, replaced, probe>>

------------------------------------------------------------------------------
(* main.py: invoices delete, and database.py: Invoice.delete *)

\* Invoice.delete: unlink the PDF when the path is set and the file is
\* there, then DELETE the row
Invoice_delete_files_kept(invoice_number) == files
Invoice_delete_files(invoice_number) ==
    {f \in files :
        f.path \notin {i.pdf_path : i \in Invoice_get_by_number(invoice_number)}}

Invoice_delete_rows_all(invoice_number) == {}
Invoice_delete_rows(invoice_number) ==
    {i \in invoices : i.invoice_number # invoice_number}

\* what Invoice.delete returns: False when get_by_number finds nothing,
\* else whether the DELETE removed a row
Invoice_delete_returns(invoice_number) ==
    /\ Invoice_get_by_number(invoice_number) # {}
    /\ \E i \in invoices : i.invoice_number = invoice_number

delete(invoice_number, confirmed) ==
    /\ UNCHANGED <<cycles, events, event_seq, issued, replaced, probe, compiling>>
    /\ IF Invoice_get_by_number(invoice_number) = {}
       THEN /\ last' = Outcome("invoices delete", "exit 1: not found")
            /\ UNCHANGED <<invoices, files>>
       ELSE IF ~confirmed
       THEN /\ last' = Outcome("invoices delete", "cancelled")
            /\ UNCHANGED <<invoices, files>>
       ELSE /\ files' = Invoice_delete_files(invoice_number)
            /\ invoices' = Invoice_delete_rows(invoice_number)
            /\ last' = Outcome("invoices delete",
                                IF Invoice_delete_returns(invoice_number)
                                THEN "ok" ELSE "exit 1: failed")

------------------------------------------------------------------------------
(* The command line *)

Next ==
    \/ \E input \in CycleInputs : create_cycle(input[1], input[2], input[3])
    \/ \E items \in Responses : fetch(items)
    \/ fetch_fails
    \/ \E cycle_id \in CycleIds, selection \in PromptInputs :
          assign_events(cycle_id, selection)
    \/ \E cycle_id \in CycleIds, rate \in RateOptions, answer \in RateAnswers,
          invoice_date \in InvoiceDateOptions :
          generate(cycle_id, rate, answer, invoice_date, DefaultDueDays)
    \/ \E cycle_id \in CycleIds, rate \in RateOptions, answer \in RateAnswers,
          invoice_date \in InvoiceDateOptions :
          generate_fails(cycle_id, rate, answer, invoice_date, DefaultDueDays)
    \/ \E invoice_number \in InvoiceNumberInputs, confirmed \in BOOLEAN :
          delete(invoice_number, confirmed)

Spec == Init /\ [][Next]_vars

------------------------------------------------------------------------------
(* The store commands alone: cycle create, fetch and cycle assign *)

NextStore ==
    \/ \E input \in CycleInputs : create_cycle(input[1], input[2], input[3])
    \/ \E items \in Responses : fetch(items)
    \/ fetch_fails
    \/ \E cycle_id \in CycleIds, selection \in PromptInputs :
          assign_events(cycle_id, selection)

SpecStore == Init /\ [][NextStore]_vars

------------------------------------------------------------------------------
(* Billing: cycle assign, generate and invoices delete on a filled store *)

\* the store after: cycle create --start 1 --end 2; cycle create --start 2
\* --end 2 --rate 1000; fetch (primary calendar); fetch (second calendar);
\* cycle assign 1 with the selection '1,3' (evA and evB)
InitBilling ==
    /\ cycles = InvoiceCycle_create(InvoiceCycle_create({}, 1, 2, NULL), 2, 2, 1000)
    /\ \E first \in fetch_events(PrimaryItems), second \in fetch_events(OtherItems) :
          LET st == bulk_insert(bulk_insert([rows |-> {}, seq |-> 0, removed |-> {}],
                                            first, NULL),
                                second, NULL)
          IN  /\ events = assign_to_cycle(st.rows, {1, 2}, 1)
              /\ event_seq = st.seq
    /\ invoices = {}
    /\ files = {}
    /\ issued = <<>>
    /\ last = Outcome("cycle assign", "assigned")
    /\ replaced = {}
    /\ probe = NoProbe
    /\ compiling = [r \in Runs |-> NotCompiling]

NextBilling ==
    \/ \E cycle_id \in CycleIds : assign_events(cycle_id, <<"a", "l", "l">>)
    \/ \E cycle_id \in CycleIds, rate \in RateOptions, answer \in RateAnswers,
          invoice_date \in InvoiceDateOptions :
          generate(cycle_id, rate, answer, invoice_date, DefaultDueDays)
    \/ \E invoice_number \in InvoiceNumberInputs, confirmed \in BOOLEAN :
          delete(invoice_number, confirmed)

SpecBilling == InitBilling /\ [][NextBilling]_vars

------------------------------------------------------------------------------
(* The life of a cycle: cycle create, fetch of the primary calendar, cycle  *)
(* assign of all candidates and generate, from the empty store              *)

NextCycles ==
    \/ \E input \in CycleInputs : create_cycle(input[1], input[2], input[3])
    \/ fetch(PrimaryItems)
    \/ \E cycle_id \in CycleIds : assign_events(cycle_id, <<"a", "l", "l">>)
    \/ \E cycle_id \in CycleIds, rate \in RateOptions, answer \in RateAnswers :
          generate(cycle_id, rate, answer, NULL, DefaultDueDays)

SpecCycles == Init /\ [][NextCycles]_vars

------------------------------------------------------------------------------
(* The life of an invoice: the commands of the life of a cycle, and         *)
(* invoices delete                                                          *)

NextInvoices ==
    \/ \E input \in CycleInputs : create_cycle(input[1], input[2], input[3])
    \/ fetch(PrimaryItems)
    \/ \E cycle_id \in CycleIds : assign_events(cycle_id, <<"a", "l", "l">>)
    \/ \E cycle_id \in CycleIds, rate \in RateOptions, answer \in RateAnswers :
          generate(cycle_id, rate, answer, NULL, DefaultDueDays)
    \/ \E invoice_number \in InvoiceNumberInputs : delete(invoice_number, TRUE)

SpecInvoices == Init /\ [][NextInvoices]_vars

------------------------------------------------------------------------------
(* Cycle assign for cycles of a single day: day 1 and day 2 *)

\* --start, --end and --rate of cycle create
DayCycleInputs == {<<1, 1, NULL>>, <<2, 2, NULL>>}

NextAssign ==
    \/ \E input \in DayCycleInputs : create_cycle(input[1], input[2], input[3])
    \/ \E items \in {PrimaryItems, OtherItems} : fetch(items)
    \/ \E cycle_id \in CycleIds, selection \in PromptInputs :
          assign_events(cycle_id, selection)

SpecAssign == Init /\ [][NextAssign]_vars

------------------------------------------------------------------------------
(* Billing where doc.build can raise: cycle assign and generate on the      *)
(* filled store                                                             *)

NextRender ==
    \/ \E cycle_id \in CycleIds : assign_events(cycle_id, <<"a", "l", "l">>)
    \/ \E cycle_id \in CycleIds, rate \in RateOptions, answer \in RateAnswers,
          invoice_date \in InvoiceDateOptions :
          generate(cycle_id, rate, answer, invoice_date, DefaultDueDays)
    \/ \E cycle_id \in CycleIds, rate \in RateOptions, answer \in RateAnswers,
          invoice_date \in InvoiceDateOptions :
          generate_fails(cycle_id, rate, answer, invoice_date, DefaultDueDays)

SpecRender == InitBilling /\ [][NextRender]_vars

------------------------------------------------------------------------------
(* Billing with two runs of generate overlapping, on the same filled store *)

NextOverlap ==
    \/ \E run \in Runs, cycle_id \in CycleIds, rate \in RateOptions,
          answer \in RateAnswers, invoice_date \in InvoiceDateOptions :
          generate_begin(run, cycle_id, rate, answer, invoice_date, DefaultDueDays)
    \/ \E run \in Runs : generate_build(run)
    \/ \E run \in Runs : generate_persist(run)
    \/ \E cycle_id \in CycleIds : assign_events(cycle_id, <<"a", "l", "l">>)

SpecOverlap == InitBilling /\ [][NextOverlap]_vars

------------------------------------------------------------------------------
(* parse_selection on its own: called with every text of at most MaxSelLen *)
(* characters, and with the text of every list of at most MaxTokens tokens *)

SelChars == {"0", "1", "2", "-", ",", " ", "a"}

RECURSIVE Texts(_)
Texts(n) ==
    IF n = 0 THEN {<<>>}
    ELSE Texts(n - 1) \cup {Append(t, c) : t \in {u \in Texts(n - 1) : Len(u) = n - 1},
                                           c \in SelChars}

\* a token: the single index lo (range FALSE) or the range lo-hi (range TRUE)
TokenNums == 1..(MaxN + 1)
Tokens ==
    {[range |-> FALSE, lo |-> k, hi |-> k] : k \in TokenNums} \cup
    {[range |-> TRUE, lo |-> a, hi |-> b] : a \in TokenNums, b \in 0..(MaxN + 1)}

TokenLists == UNION {[1..n -> Tokens] : n \in 1..MaxTokens}

\* the text the user types for a list of tokens: '1,3,5-8'
TokenText(tok) ==
    IF tok.range THEN Decimal(tok.lo) \o <<"-">> \o Decimal(tok.hi) ELSE Decimal(tok.lo)

RECURSIVE TokensText(_)
TokensText(toks) ==
    IF Len(toks) = 1 THEN TokenText(toks[1])
    ELSE TokenText(toks[1]) \o <<",">> \o TokensText(Tail(toks))

InitSelection ==
    /\ cycles = {}
    /\ events = {}
    /\ event_seq = 0
    /\ invoices = {}
    /\ files = {}
    /\ issued = <<>>
    /\ last = Outcome("init", "ok")
    /\ replaced = {}
    /\ compiling = [r \in Runs |-> NotCompiling]
    /\ \E n \in 1..MaxN :
          \/ \E selection \in Texts(MaxSelLen) :
                probe = [tokens |-> <<>>, selection |-> selection, max_num |-> n,
                         state |-> "called", result |-> <<>>]
          \/ \E toks \in TokenLists :
                probe = [tokens |-> toks, selection |-> TokensText(toks), max_num |-> n,
                         state |-> "called", result |-> <<>>]

\* the call returns its list, or raises
call_parse_selection ==
    /\ probe.state = "called"
    /\ LET parsed == parse_selection(probe.selection, probe.max_num)
       IN  probe' = [probe EXCEPT !.state = IF parsed.error THEN "raised" ELSE "returned",
                                  !.result = parsed.indices]
    /\ UNCHANGED <<db, issued, last, replaced, compiling>>

NextSelection == call_parse_selection

SpecSelection == InitSelection /\ [][NextSelection]_vars

------------------------------------------------------------------------------
(* Properties: invoice numbering and compilation (SpecBilling) *)

\* the number a text of decimal digits denotes, read from its last digit
RECURSIVE DigitsValue(_)
DigitsValue(d) ==
    IF Len(d) = 0 THEN 0
    ELSE DigitVal(d[Len(d)]) + 10 * DigitsValue(SubSeq(d, 1, Len(d) - 1))

\* the numeric suffix of an invoice number '#NNN'
NumericSuffix(number) == DigitsValue(Tail(number))

\* M: the largest numeric suffix stored, 0 when no invoice is stored
MaxStoredSuffix ==
    IF invoices = {} THEN 0 ELSE Max({NumericSuffix(i.invoice_number) : i \in invoices})

StoredSuffixes == {NumericSuffix(i.invoice_number) : i \in invoices}

\* C1: in every state get_next_invoice_number returns '#' followed by three
\* digits whose value is M + 1, M the largest numeric suffix stored (0 when
\* none is stored): '#001' on an empty store, and a gap left by a deletion
\* is not refilled.
C1_NextInvoiceNumber ==
    LET number == get_next_invoice_number(invoices)
    IN  /\ Len(number) = 4
        /\ number[1] = "#"
        /\ \A k \in 2..4 : IsDigit(number[k])
        /\ 100 * DigitVal(number[2]) + 10 * DigitVal(number[3]) + DigitVal(number[4])
              = MaxStoredSuffix + 1
        /\ (invoices = {} => number = <<"#", "0", "0", "1">>)

\* #001 was deleted while #002 is stored, and generate then handed out #003
C1_Witness ==
    /\ StoredSuffixes = {2, 3}
    /\ Len(issued) = 3
    /\ issued[3] = <<"#", "0", "0", "3">>
    /\ last = Outcome("generate", "ok")

\* C2: the invoice numbers handed out are strictly increasing, so that no
\* number is handed out twice, whatever was deleted in between.
C2_NumbersNeverReused ==
    \A i, j \in 1..Len(issued) :
        i < j => NumericSuffix(issued[i]) < NumericSuffix(issued[j])

\* the sum of the durations of a set of event rows
RECURSIVE SumDurations(_)
SumDurations(S) ==
    IF S = {} THEN 0
    ELSE LET e == CHOOSE x \in S : TRUE
         IN  e.duration_hours + SumDurations(S \ {e})

\* C3: every stored invoice has total_amount = total_hours * hourly_rate,
\* and the invoice a successful generate has just stored has total_hours
\* equal to the sum of the durations of the events bound to its cycle.
C3_InvoiceTotals ==
    /\ \A i \in invoices : i.total_amount = i.total_hours * i.hourly_rate
    /\ last = Outcome("generate", "ok") =>
          \E i \in invoices :
             /\ i.invoice_number = issued[Len(issued)]
             /\ {e \in events : e.cycle_id = i.cycle_id} # {}
             /\ i.total_hours = SumDurations({e \in events : e.cycle_id = i.cycle_id})

\* durations 2.5 and 1.25 at rate 1000: 3.75 hours, amount 3750.00
C3_Witness ==
    /\ last = Outcome("generate", "ok")
    /\ \E i \in invoices :
          /\ i.invoice_number = issued[Len(issued)]
          /\ {e.duration_hours : e \in {x \in events : x.cycle_id = i.cycle_id}} = {250, 125}
          /\ i.hourly_rate = 1000
          /\ i.total_hours = 375
          /\ i.total_amount = 375000

\* C4: a run of generate on an existing cycle that has no bound event ends
\* with exit status 1 and leaves the invoices, the files and the next
\* invoice number as they were.
C4_NoInvoiceWithoutEvents ==
    [][ \A cycle_id \in CycleIds, rate \in RateOptions, answer \in RateAnswers,
           invoice_date \in InvoiceDateOptions :
           ( /\ last'.cmd = "generate"
             /\ InvoiceCycle_get(cycle_id) # {}
             /\ ~ \E e \in events : e.cycle_id = cycle_id
             /\ generate(cycle_id, rate, answer, invoice_date, DefaultDueDays) )
           => /\ last'.status = "exit 1: no events"
              /\ invoices' = invoices
              /\ files' = files
              /\ issued' = issued
              /\ get_next_invoice_number(invoices') = get_next_invoice_number(invoices)
      ]_vars

\* generate has just failed on a cycle without events, invoices being stored
C4_Witness ==
    /\ last = Outcome("generate", "exit 1: no events")
    /\ invoices # {}
    /\ \E c \in cycles : ~ \E e \in events : e.cycle_id = c.id

------------------------------------------------------------------------------
(* Properties: the event store and cycle assign (SpecStore) *)

\* the dates a query is made with
QueryDates == {1, 2, 3}

\* s is in ascending order of the instants its rows start at
AscendingByStart(s) ==
    \A i, j \in 1..Len(s) : i < j => Instant(s[i].start_time) <= Instant(s[j].start_time)

\* s lists the rows of S, each once
Lists(s, S) == Range(s) = S /\ Len(s) = Cardinality(S)

\* C5: get_unassigned(start, end) returns exactly the stored events without
\* a cycle whose start date is on or after start and whose end date is on
\* or before end, the dates being those of the stored timestamps, in
\* ascending order of their start.
C5_UnassignedInRange ==
    \A start_date, end_date \in QueryDates :
       \A result \in get_unassigned(start_date, end_date) :
          /\ Lists(result, {e \in events : /\ e.cycle_id = NULL
                                           /\ e.start_time.day >= start_date
                                           /\ e.end_time.day <= end_date})
          /\ AscendingByStart(result)

\* what assign_to_cycle makes of the rows, for every list of ids (stored or
\* not) and every cycle id: the rows named get the cycle id, every row
\* keeps its other columns, no row appears or disappears
SameButCycle(a, e) ==
    /\ a.id = e.id
    /\ a.event_id = e.event_id
    /\ a.start_time = e.start_time
    /\ a.end_time = e.end_time
    /\ a.duration_hours = e.duration_hours

AssignEffect(rows) ==
    \A ids \in SUBSET ({e.id : e \in rows} \cup {MaxRowId + 1}), cycle_id \in CycleIds :
       LET after == assign_to_cycle(rows, ids, cycle_id)
       IN  /\ \A e \in rows :
                \E a \in after :
                   /\ SameButCycle(a, e)
                   /\ a.cycle_id = IF e.id \in ids THEN cycle_id ELSE e.cycle_id
           /\ Cardinality(after) = Cardinality(rows)
           /\ (ids \cap {e.id : e \in rows} = {} => after = rows)

\* C6: assign_to_cycle sets the cycle on exactly the rows whose ids are
\* given and changes nothing else of the rows (ids that are not stored
\* change nothing); the command that calls it leaves cycles, invoices and
\* files as they were and keeps every event's other columns.
C6_AssignToCycle ==
    [][ (last'.cmd = "cycle assign" /\ events' # events)
        => /\ AssignEffect(events)
           /\ \A e \in events : \E a \in events' : SameButCycle(a, e)
           /\ Cardinality(events') = Cardinality(events)
           /\ cycles' = cycles
           /\ invoices' = invoices
           /\ files' = files
           /\ event_seq' = event_seq
      ]_vars

\* cycle assign has just bound events, one event is bound to each of two
\* cycles and another is still unassigned
C6_Witness ==
    /\ last = Outcome("cycle assign", "assigned")
    /\ \E e1, e2, e3 \in events :
          e1.cycle_id = 1 /\ e2.cycle_id = 2 /\ e3.cycle_id = NULL

\* C7: after cycle assign has bound events, no query for unassigned events
\* returns a bound event, and get_by_cycle(c) returns exactly the events
\* bound to c in ascending order of their start.
C7_AfterAssign ==
    last = Outcome("cycle assign", "assigned") =>
       /\ \A start_date, end_date \in QueryDates :
             \A result \in get_unassigned(start_date, end_date) :
                \A k \in 1..Len(result) : result[k].cycle_id = NULL
       /\ \A cycle_id \in CycleIds :
             \A result \in get_by_cycle(cycle_id) :
                /\ Lists(result, {e \in events : e.cycle_id = cycle_id})
                /\ AscendingByStart(result)

\* the tokens of a typed selection: the texts between its commas
TokenBounds(s) == {0} \cup {i \in 1..Len(s) : s[i] = ","} \cup {Len(s) + 1}

TypedTokens(s) ==
    {SubSeq(s, b[1] + 1, b[2] - 1) :
        b \in {c \in TokenBounds(s) \X TokenBounds(s) :
                  c[1] < c[2] /\ ~ \E m \in TokenBounds(s) : c[1] < m /\ m < c[2]}}

\* a malformed token: empty or blank, with a character that is no digit,
\* or with more than one '-'
IsMalformedToken(t) ==
    \/ \A k \in 1..Len(t) : t[k] = " "
    \/ \E k \in 1..Len(t) : ~IsDigit(t[k]) /\ t[k] \notin {"-", " "}
    \/ Cardinality({k \in 1..Len(t) : t[k] = "-"}) > 1

HasMalformedToken(s) == \E t \in TypedTokens(s) : IsMalformedToken(t)

MalformedInputs ==
    {s \in PromptInputs : HasMalformedToken(s) /\ lower(s) # <<"a", "l", "l">>}

\* C10: when the selection typed at the prompt of cycle assign has a
\* malformed token, parse_selection raises, the command ends with the
\* ValueError and the event store is as it was.
C10_MalformedSelection ==
    [][ last'.cmd = "cycle assign" =>
          \A cycle_id \in CycleIds, selection \in MalformedInputs :
             ( /\ \E c \in cycles : /\ c.id = cycle_id
                                    /\ unassigned_rows(c.start_date, c.end_date) # {}
               /\ assign_events(cycle_id, selection) )
             => /\ last'.status = "ValueError"
                /\ events' = events
      ]_vars

\* cycle assign has just ended with the ValueError while candidates were
\* on offer
C10_Witness ==
    /\ last = Outcome("cycle assign", "ValueError")
    /\ \E c \in cycles : unassigned_rows(c.start_date, c.end_date) # {}
    /\ \E e \in events : e.cycle_id # NULL

------------------------------------------------------------------------------
(* Properties: parse_selection (SpecSelection) *)

StrictlyAscending(s) == \A i, j \in 1..Len(s) : i < j => s[i] < s[j]

\* C8: a list parse_selection returns is strictly ascending and each of
\* its elements lies in 1..max_num.
C8_IndicesWithinBounds ==
    probe.state = "returned" =>
       /\ StrictlyAscending(probe.result)
       /\ \A k \in 1..Len(probe.result) :
             1 <= probe.result[k] /\ probe.result[k] <= probe.max_num

\* the indices a list of tokens denotes among 1..n
ExpectedIndices(toks, n) ==
    {i \in 1..n : \E k \in 1..Len(toks) : toks[k].lo <= i /\ i <= toks[k].hi}

\* C9: for the text of a list of single indices (>= 1) and ranges a-b with
\* a >= 1, parse_selection returns, without raising, the strictly ascending
\* list of the union of the tokens' indices within 1..max_num.
C9_UnionOfTokens ==
    (Len(probe.tokens) > 0 /\ probe.state # "called") =>
       /\ probe.state = "returned"
       /\ StrictlyAscending(probe.result)
       /\ Range(probe.result) = ExpectedIndices(probe.tokens, probe.max_num)

\* '1,2-3' with two candidates: the range is clamped, the result is 1, 2
C9_Witness ==
    /\ probe.state = "returned"
    /\ Len(probe.tokens) = 2
    /\ probe.tokens[1] = [range |-> FALSE, lo |-> 1, hi |-> 1]
    /\ probe.tokens[2] = [range |-> TRUE, lo |-> 2, hi |-> 3]
    /\ probe.max_num = 2
    /\ probe.result = <<1, 2>>

------------------------------------------------------------------------------
(* Properties: ingestion (SpecStore) *)

UniqueKeys(rows) == \A a, b \in rows : a.event_id = b.event_id => a = b

\* C11: the event table never holds two rows with the same event_id, and
\* after a fetch that ingested events each of them is stored with a null
\* cycle_id, is in no get_by_cycle result and is in the get_unassigned
\* result over the widest range of dates, whether or not it was assigned
\* to a cycle before.
C11_RefetchUnassigns ==
    [][ /\ UniqueKeys(events')
        /\ \A items \in Responses :
              (items # {} /\ fetch(items)) =>
                 \A item \in items :
                    \E e \in events' :
                       /\ e.event_id = item.id
                       /\ e.cycle_id = NULL
                       /\ \A c \in CycleIds :
                             \A result \in get_by_cycle(c)' : e \notin Range(result)
                       /\ \A result \in get_unassigned(1, 3)' : e \in Range(result)
      ]_vars

\* a fetch has just replaced a row that was assigned to a cycle, and the
\* row stored for that event is unassigned
C11_Witness ==
    /\ last = Outcome("fetch", "ok")
    /\ \E r \in replaced :
          /\ r.cycle_id # NULL
          /\ \E e \in events : e.event_id = r.event_id /\ e.cycle_id = NULL

\* C12: a fetch that ingests an event that is already stored with the same
\* event_id, times and duration leaves that row as it was (same id, same
\* times and duration).
C12_IngestionIdempotent ==
    [][ \A items \in Responses :
          fetch(items) =>
             \A e \in events :
                (\E item \in items :
                    /\ processed_event(item).id = e.event_id
                    /\ processed_event(item).start = e.start_time
                    /\ processed_event(item).end = e.end_time
                    /\ processed_event(item).duration_hours = e.duration_hours)
                => \E a \in events' : SameButCycle(a, e)
      ]_vars

\* C15: every stored event ends after it starts and its duration_hours is
\* the time from start to end in hours rounded to 2 decimals, hence
\* positive.
C15_EventsEndAfterStart ==
    \A e \in events :
       /\ Instant(e.end_time) > Instant(e.start_time)
       /\ e.duration_hours * 60 - 30 <= (Instant(e.end_time) - Instant(e.start_time)) * 100
       /\ (Instant(e.end_time) - Instant(e.start_time)) * 100 <= e.duration_hours * 60 + 30
       /\ e.duration_hours > 0

\* C16: every stored invoice cycle has start_date <= end_date.
C16_CycleDatesOrdered == \A c \in cycles : c.start_date <= c.end_date

------------------------------------------------------------------------------
(* Properties: invoice deletion and the artifact (SpecBilling) *)

Stored(invoice_number) == \E i \in invoices : i.invoice_number = invoice_number

\* C13: deleting a stored invoice removes its row and the file at its
\* pdf_path, leaves the other rows and files, reports success, and a lookup
\* of the number then finds nothing; for a number that is not stored
\* Invoice.delete returns False and removes no row and no file, and the
\* command changes neither invoices nor files.
C13_DeleteInvoice ==
    [][ \A invoice_number \in InvoiceNumberInputs :
          /\ (Stored(invoice_number) /\ delete(invoice_number, TRUE)) =>
                /\ last'.status = "ok"
                /\ invoices' = {i \in invoices : i.invoice_number # invoice_number}
                /\ \A i \in invoices :
                      i.invoice_number = invoice_number =>
                         \A f \in files' : f.path # i.pdf_path
                /\ \A f \in files :
                      (\A i \in invoices : i.invoice_number = invoice_number
                                               => f.path # i.pdf_path)
                      => f \in files'
                /\ files' \subseteq files
                /\ Invoice_get_by_number(invoice_number)' = {}
          /\ ~Stored(invoice_number) =>
                /\ ~Invoice_delete_returns(invoice_number)
                /\ Invoice_delete_rows(invoice_number) = invoices
                /\ Invoice_delete_files(invoice_number) = files
                /\ \A confirmed \in BOOLEAN :
                      delete(invoice_number, confirmed) =>
                         /\ last'.status = "exit 1: not found"
                         /\ invoices' = invoices
                         /\ files' = files
      ]_vars

\* invoices delete has just removed an invoice: a number that was handed
\* out is no longer stored, no file shows it, and another invoice is still
\* stored with its file
C13_Witness ==
    /\ last = Outcome("invoices delete", "ok")
    /\ \E k \in 1..Len(issued) :
          /\ ~Stored(issued[k])
          /\ \A f \in files : f.content.invoice_number # issued[k]
    /\ \E i \in invoices : \E f \in files : f.path = i.pdf_path

ShowsInvoice(f, i) ==
    /\ f.path = i.pdf_path
    /\ f.content.invoice_number = i.invoice_number
    /\ f.content.invoice_date = i.invoice_date
    /\ f.content.due_date = i.due_date
    /\ f.content.total_hours = i.total_hours
    /\ f.content.total_amount = i.total_amount

\* C17: a generate that succeeds writes exactly one file, the one at the
\* pdf_path of the row it stores, showing that row's number, dates and
\* totals, and touches no other file; so every stored invoice names a
\* file that shows its own number and totals.
C17_ArtifactMatchesRecord ==
    [][ /\ \A i \in invoices' : \E f \in files' : ShowsInvoice(f, i)
        /\ (last'.cmd = "generate" /\ last'.status = "ok" /\ invoices' # invoices) =>
              \E i \in invoices' :
                 /\ i \notin invoices
                 /\ invoices' = invoices \cup {i}
                 /\ Cardinality(files' \ files) = 1
                 /\ \A f \in files' \ files : ShowsInvoice(f, i)
                 /\ \A f \in files : f.path # i.pdf_path => f \in files'
      ]_vars

\* generate has just stored an invoice for the events of cycle 1 (3.75
\* hours at 1500) and its file shows these totals
C17_Witness ==
    /\ last = Outcome("generate", "ok")
    /\ \E i \in invoices :
          /\ i.total_hours = 375
          /\ i.total_amount = 562500
          /\ \E f \in files : ShowsInvoice(f, i)

------------------------------------------------------------------------------
(* Properties: overlapping runs of generate (SpecOverlap) *)

\* C14: two runs of generate that are both between get_next_invoice_number
\* and the end of Invoice.create hold different invoice numbers.
C14_DistinctNumbersWhenOverlapping ==
    \A r1, r2 \in Runs :
       (r1 # r2 /\ compiling[r1].pc # "idle" /\ compiling[r2].pc # "idle")
       => compiling[r1].row.invoice_number # compiling[r2].row.invoice_number

UniqueNumbers(rows) == \A a, b \in rows : a.invoice_number = b.invoice_number => a = b

\* C19: no two stored invoices have the same invoice_number, also when
\* runs of generate overlap; an Invoice.create for a number that is stored
\* fails and leaves the invoices as they were.
C19_UniqueInvoiceNumbers ==
    [][ /\ UniqueNumbers(invoices')
        /\ \A run \in Runs :
              ( /\ compiling[run].pc = "built"
                /\ Stored(compiling[run].row.invoice_number)
                /\ generate_persist(run) )
              => /\ last'.status = "exit 1: failed"
                 /\ invoices' = invoices
      ]_vars

\* a run of generate has just failed in Invoice.create: the number it was
\* given had been given to the other run too, whose invoice is stored
C19_Witness ==
    /\ last = Outcome("generate", "exit 1: failed")
    /\ \E k, l \in 1..Len(issued) :
          k < l /\ issued[k] = issued[l] /\ Stored(issued[k])

------------------------------------------------------------------------------
(* Properties: the life of a cycle (SpecCycles) *)

StoreUnchanged == cycles' = cycles /\ events' = events /\ invoices' = invoices

\* C18: a generate or cycle assign that cannot proceed, because no cycle
\* has the id given, or because the cycle has no bound event (generate) or
\* no candidate (cycle assign), leaves cycles (with their hourly rates),
\* events and invoices as they were.
C18_FailedCommandChangesNothing ==
    [][ \A cycle_id \in CycleIds :
          /\ \A rate \in RateOptions, answer \in RateAnswers :
                ( /\ \/ \A c \in cycles : c.id # cycle_id
                     \/ \A e \in events : e.cycle_id # cycle_id
                  /\ generate(cycle_id, rate, answer, NULL, DefaultDueDays) )
                => StoreUnchanged
          /\ ( /\ \/ \A c \in cycles : c.id # cycle_id
                  \/ \A c \in cycles :
                        c.id = cycle_id => unassigned_rows(c.start_date, c.end_date) = {}
               /\ assign_events(cycle_id, <<"a", "l", "l">>) )
             => StoreUnchanged
      ]_vars

\* a rate that is there to be used: set, and not zero
Available(rate) == rate # NULL /\ rate # 0

\* C20: every step keeps every cycle with its id, start_date and end_date
\* and keeps ids unique; a step that changes a cycle's hourly rate is a
\* generate given no rate for a cycle that has no rate, and it sets the rate
\* of that cycle, to the rate answered at the prompt, and of no other.
C20_CycleLifecycle ==
    [][ /\ \A c \in cycles :
              \E d \in cycles' : /\ d.id = c.id
                                 /\ d.start_date = c.start_date
                                 /\ d.end_date = c.end_date
        /\ \A c, d \in cycles' : c.id = d.id => c = d
        /\ (\E c \in cycles : c \notin cycles') =>
              \E cycle_id \in CycleIds, rate \in RateOptions, answer \in RateAnswers :
                 /\ generate(cycle_id, rate, answer, NULL, DefaultDueDays)
                 /\ ~Available(rate)
                 /\ \A c \in cycles :
                       IF c.id = cycle_id
                       THEN /\ ~Available(c.hourly_rate)
                            /\ [c EXCEPT !.hourly_rate = answer] \in cycles'
                       ELSE c \in cycles'
      ]_vars

\* generate has back-filled the rate of the cycle created for days 1..2
\* without a rate, and the other cycle, created without a rate, has none
C20_Witness ==
    /\ last.cmd = "generate"
    /\ \E c, d \in cycles :
          /\ c.start_date = 1 /\ c.end_date = 2 /\ c.hourly_rate = 1000
          /\ d.start_date = 2 /\ d.end_date = 1 /\ d.hourly_rate = NULL

------------------------------------------------------------------------------
(* Properties: the life of an invoice (SpecInvoices) *)

\* C21: every step leaves every stored invoice exactly as it is (cycle,
\* number, dates, total hours, rate, total amount and pdf_path), unless
\* the step is the invoices delete of that invoice's number.
C21_InvoiceImmutable ==
    [][ \A i \in invoices :
          \/ i \in invoices'
          \/ /\ delete(i.invoice_number, TRUE)
             /\ \A j \in invoices' : j.invoice_number # i.invoice_number
      ]_vars

\* an invoice of cycle 1 for 3.75 hours is stored, its events have since
\* been fetched again and are unassigned, and the cycle's rate is no longer
\* the invoice's
C21_Witness ==
    /\ last = Outcome("fetch", "ok")
    /\ \E i \in invoices :
          /\ i.total_hours = 375
          /\ \A e \in events : e.cycle_id # i.cycle_id
          /\ \E c \in cycles : c.id = i.cycle_id /\ c.hourly_rate # i.hourly_rate

------------------------------------------------------------------------------
(* Properties: what cycle assign can bind (SpecAssign) *)

\* C22: every event bound to a cycle lies within the cycle's dates: the
\* date of its start is on or after the cycle's start_date and the date of
\* its end is on or before the cycle's end_date.
C22_BoundEventsWithinCycle ==
    \A e \in events :
       \A c \in cycles :
          e.cycle_id = c.id =>
             /\ c.start_date <= e.start_time.day
             /\ e.end_time.day <= c.end_date

\* what does hold of the rows cycle assign binds: they are rows that
\* get_unassigned returned for the cycle's dates (rows without a cycle whose
\* DATE() lies in the range), whatever selection was accepted, so that a
\* row that is bound is never bound again
OnlyCandidatesBound ==
    [][ \A cycle_id \in CycleIds, selection \in PromptInputs :
          assign_events(cycle_id, selection) =>
             \A a \in events' :
                a \notin events =>
                   /\ a.cycle_id = cycle_id
                   /\ \E c \in cycles :
                         /\ c.id = cycle_id
                         /\ \E e \in unassigned_rows(c.start_date, c.end_date) :
                               SameButCycle(a, e)
      ]_vars

------------------------------------------------------------------------------
(* Properties: a failing doc.build (SpecRender) *)

\* C23: a generate in which doc.build raises ends with a failure and
\* leaves the invoices as they were, so that the number it had read is
\* still the next number; and the step after a failed generate, if it
\* reads a number, reads the number the failed run had read.
C23_RenderFailureKeepsNumber ==
    [][ /\ \A cycle_id \in CycleIds, rate \in RateOptions, answer \in RateAnswers,
              invoice_date \in InvoiceDateOptions :
              generate_fails(cycle_id, rate, answer, invoice_date, DefaultDueDays) =>
                 /\ last'.status = "exit 1: failed"
                 /\ invoices' = invoices
                 /\ issued'[Len(issued')] = get_next_invoice_number(invoices)
                 /\ get_next_invoice_number(invoices') = issued'[Len(issued')]
        /\ ( /\ last = Outcome("generate", "exit 1: failed")
             /\ Len(issued') = Len(issued) + 1 )
           => issued'[Len(issued')] = issued[Len(issued)]
      ]_vars

\* a generate failed in doc.build, and the generate after it was given the
\* same number and stored the only invoice there is
C23_Witness ==
    /\ last = Outcome("generate", "ok")
    /\ Len(issued) = 2
    /\ issued[1] = issued[2]
    /\ Stored(issued[2])
    /\ Cardinality(invoices) = 1

====
